---- MODULE Spec2Model ----
(***************************************************************************)
(* SuperGlue feature matching (src/models/superglue_triton.py).            *)
(*                                                                         *)
(* One model instance (its configuration, its bin_score parameter and the *)
(* per-layer attention-probability buffers) serves calls of                *)
(* SuperGlue.forward.  Every call owns a frame of local tensors.           *)
(*                                                                         *)
(* Number representation.  Tensors hold exact rationals <<num, den>>.      *)
(* Every log-domain tensor of the optimal-transport layer (scores,         *)
(* couplings, u, v, log_mu, log_nu, norm, Z) is held by its exponential:   *)
(* the source's  a + b  is a product here,  a - b  a quotient, logsumexp a *)
(* sum, and .exp() reads the held value.  max / argmax are unchanged       *)
(* because exp is increasing.  Tensor indices are 0-based as in the source *)
(* and the batch dimension is 1.                                           *)
(***************************************************************************)
EXTENDS Integers, Sequences, FiniteSets, TLC

VARIABLES
  bin_score,            \* SuperGlue.bin_score, the learned dustbin score
  sinkhorn_iterations,  \* SuperGlue.sinkhorn_iterations (config)
  prob,                 \* layer index -> MultiHeadedAttention.prob (a list)
  call                  \* caller -> frame of SuperGlue.forward

vars == <<bin_score, sinkhorn_iterations, prob, call>>

-----------------------------------------------------------------------------
(* Bounds of the model *)

\* largest number of keypoints of one set
MaxN == 2
\* largest configured sinkhorn_iterations
MaxIters == 2

-----------------------------------------------------------------------------
(* Exact rational arithmetic *)

RECURSIVE GCD(_, _)
GCD(a, b) == IF b = 0 THEN a ELSE GCD(b, a % b)

Rat(n, d) == LET g == GCD(n, d) IN <<n \div g, d \div g>>

Zero == <<0, 1>>
One == <<1, 1>>

RMul(a, b) ==
  LET g1 == GCD(a[1], b[2])
      g2 == GCD(b[1], a[2])
  IN  IF a[1] = 0 \/ b[1] = 0 THEN Zero
      ELSE <<(a[1] \div g1) * (b[1] \div g2), (a[2] \div g2) * (b[2] \div g1)>>

RDiv(a, b) == RMul(a, <<b[2], b[1]>>)

RAdd(a, b) ==
  LET g == GCD(a[2], b[2])
  IN  Rat(a[1] * (b[2] \div g) + b[1] * (a[2] \div g), (a[2] \div g) * b[2])

RECURSIVE Less(_, _, _, _)
\* n1/d1 < n2/d2 for non-negative fractions, by their continued fractions
Less(n1, d1, n2, d2) ==
  IF n1 \div d1 # n2 \div d2 THEN n1 \div d1 < n2 \div d2
  ELSE IF n2 % d2 = 0 THEN FALSE
  ELSE IF n1 % d1 = 0 THEN TRUE
  ELSE Less(d2, n2 % d2, d1, n1 % d1)

RLess(a, b) == Less(a[1], a[2], b[1], b[2])

RLeq(a, b) == ~RLess(b, a)

\* |a - b|
RDist(a, b) ==
  LET g == GCD(a[2], b[2])
      x == a[1] * (b[2] \div g)
      y == b[1] * (a[2] \div g)
  IN  Rat(IF x < y THEN y - x ELSE x - y, (a[2] \div g) * b[2])

RECURSIVE RSumTo(_, _)
\* f[0] + ... + f[k-1]
RSumTo(f, k) == IF k = 0 THEN Zero ELSE RAdd(RSumTo(f, k - 1), f[k - 1])

RSum(f) == RSumTo(f, Cardinality(DOMAIN f))

Len0(f) == Cardinality(DOMAIN f)

-----------------------------------------------------------------------------
(* log_sinkhorn_iterations, log_optimal_transport *)

\* scores.shape = (b, m, n)
Rows(M) == Len0(M)
Cols(M) == IF Len0(M) = 0 THEN 0 ELSE Len0(M[0])

\* couplings = cat([cat([scores, bins0], -1), cat([bins1, alpha], -1)], 1)
Couplings(S, alpha) ==
  LET m == Rows(S)
      n == Cols(S)
  IN  [i \in 0..m |-> [j \in 0..n |-> IF i < m /\ j < n THEN S[i][j] ELSE alpha]]

\* norm = -(ms + ns).log()
Norm(m, n) == Rat(1, m + n)

\* log_mu = cat([norm.expand(m), ns.log()[None] + norm])
LogMu(m, n) == [i \in 0..m |-> IF i < m THEN Norm(m, n) ELSE RMul(<<n, 1>>, Norm(m, n))]

\* a plausible slip: norm left out of log_nu
LogNuNoNorm(m, n) == [j \in 0..n |-> IF j < n THEN One ELSE <<m, 1>>]

\* log_nu = cat([norm.expand(n), ms.log()[None] + norm])
LogNu(m, n) == [j \in 0..n |-> IF j < n THEN Norm(m, n) ELSE RMul(<<m, 1>>, Norm(m, n))]

\* u, v = zeros_like(log_mu), zeros_like(log_nu)
ZerosLike(f) == [i \in DOMAIN f |-> One]

\* u = log_mu - logsumexp(Z + v.unsqueeze(1), dim=2)
UpdateU(Z, log_mu, v) ==
  [i \in DOMAIN log_mu |->
     RDiv(log_mu[i], RSum([j \in DOMAIN v |-> RMul(Z[i][j], v[j])]))]

\* v = log_nu - logsumexp(Z + u.unsqueeze(2), dim=1)
UpdateV(Z, log_nu, u) ==
  [j \in DOMAIN log_nu |->
     RDiv(log_nu[j], RSum([i \in DOMAIN u |-> RMul(Z[i][j], u[i])]))]

\* return Z + u.unsqueeze(2) + v.unsqueeze(1)
SinkhornResult(Z, u, v) ==
  [i \in DOMAIN u |-> [j \in DOMAIN v |-> RMul(RMul(Z[i][j], u[i]), v[j])]]

\* a plausible slip: the final shift left out
NoShift(Z, norm) == Z

\* Z = Z - norm
ShiftByNorm(Z, norm) ==
  [i \in DOMAIN Z |-> [j \in DOMAIN Z[i] |-> RDiv(Z[i][j], norm)]]

\* what log_optimal_transport returns when the loop stops with potentials u, v
Transported(couplings, u, v) ==
  ShiftByNorm(SinkhornResult(couplings, u, v),
              Norm(Rows(couplings) - 1, Cols(couplings) - 1))

-----------------------------------------------------------------------------
(* Match extraction, SuperGlue.forward lines 280-293 *)

\* default_config['match_threshold'] = 0.2
match_threshold == <<1, 5>>

\* scores[:, :-1, :-1]
DropDustbins(Z) ==
  [i \in 0..(Rows(Z) - 2) |-> [j \in 0..(Cols(Z) - 2) |-> Z[i][j]]]

Row(S, i) == S[i]
Column(S, j) == [i \in DOMAIN S |-> S[i][j]]

\* the positions torch.max may report for f: those holding the maximal value
\* (which of several tied positions is reported depends on the build)
MaxIndices(f) == {i \in DOMAIN f : \A k \in DOMAIN f : RLeq(f[k], f[i])}

\* max0.indices of scores[:, :-1, :-1].max(2)
Max0Choices(S) ==
  {f \in [0..(Rows(S) - 1) -> 0..(Cols(S) - 1)] :
     \A i \in DOMAIN f : f[i] \in MaxIndices(Row(S, i))}

\* max1.indices of scores[:, :-1, :-1].max(1)
Max1Choices(S) ==
  {f \in [0..(Cols(S) - 1) -> 0..(Rows(S) - 1)] :
     \A j \in DOMAIN f : f[j] \in MaxIndices(Column(S, j))}

\* a plausible slip: a row is compared with its own column index
Mutual0Self(indices0, indices1) ==
  [i \in DOMAIN indices0 |-> i = indices0[i]]

\* a plausible slip: the row maximum alone decides, without the mutual check
Mutual0RowOnly(indices0, indices1) ==
  [i \in DOMAIN indices0 |-> indices0[i] = indices0[i]]

\* mutual0 = arange_like(indices0, 1)[None] == indices1.gather(1, indices0)
Mutual0(indices0, indices1) ==
  [i \in DOMAIN indices0 |-> i = indices1[indices0[i]]]

\* a plausible slip: the score is kept whether or not the row is mutual
Mscores0Unmasked(S, indices0, mutual0) ==
  [i \in DOMAIN indices0 |-> S[i][indices0[i]]]

\* mscores0 = torch.where(mutual0, max0.values.exp(), zero)
Mscores0(S, indices0, mutual0) ==
  [i \in DOMAIN indices0 |-> IF mutual0[i] THEN S[i][indices0[i]] ELSE Zero]

\* valid0 = mutual0 & (mscores0 > self.match_threshold)
Valid0(mutual0, mscores0) ==
  [i \in DOMAIN mutual0 |-> mutual0[i] /\ RLess(match_threshold, mscores0[i])]

\* indices0 = torch.where(valid0, indices0, torch.tensor(-1).to(indices0))
Indices0(valid0, indices0) ==
  [i \in DOMAIN indices0 |-> IF valid0[i] THEN indices0[i] ELSE -1]

\* a returned tensor: its shape and its entries in row-major order
Tensor(shape, data) == [shape |-> shape, data |-> data]

\* return indices0, mscores0   (indices0 as float, both of shape (1, N0))
Matches(S, indices0, indices1) ==
  LET mutual0 == Mutual0(indices0, indices1)
      mscores0 == Mscores0(S, indices0, mutual0)
      valid0 == Valid0(mutual0, mscores0)
  IN  [indices0 |-> Tensor(<<1, Rows(S)>>, Indices0(valid0, indices0)),
       mscores0 |-> Tensor(<<1, Rows(S)>>, mscores0)]

-----------------------------------------------------------------------------
(* The learned layers.  Their weights are fixed after construction; the   *)
(* model gives every 1x1 convolution a fixed integer weight and bias and  *)
(* keeps descriptors in a finite range (one channel, one head).           *)

Wrap(x) == x % 3

\* default_config['GNN_layers'] = ['self', 'cross'] * 9; LayerReps repetitions here
LayerReps == 1
NumLayers == 2 * LayerReps
names == [i \in 0..(NumLayers - 1) |-> IF i % 2 = 0 THEN "self" ELSE "cross"]

\* normalize_keypoints: (kpts - size / 2) / (size.max() * 0.7)
NormalizeKeypoints(kpts, size) ==
  LET mx == IF size[1] > size[2] THEN size[1] ELSE size[2]
  IN  [n \in DOMAIN kpts |->
         [d \in 1..2 |-> Rat(20 * kpts[n][d] - 10 * size[d], 14 * mx)]]

\* KeypointEncoder.forward: encoder(cat([kpts.transpose(1, 2), scores.unsqueeze(1)]))
Kenc(kpts, scores) ==
  [n \in DOMAIN kpts |->
     Wrap(kpts[n][1][1] + kpts[n][1][2] + kpts[n][2][1] + kpts[n][2][2] + scores[n])]

\* l(x) for l in self.proj of layer k: the query, key and value projections
ProjQuery(k, x) == [n \in DOMAIN x |-> Wrap(x[n] + k)]
ProjKey(k, x) == [n \in DOMAIN x |-> Wrap(2 * x[n])]
ProjValue(k, x) == [n \in DOMAIN x |-> Wrap(x[n] + 1 + k)]

\* attention: prob = softmax(einsum(query, key) / dim**.5, dim=-1)
AttentionProb(query, key) ==
  LET e(n, m) == 2 ^ (query[n] * key[m])
      total(n) == RSum([m \in DOMAIN key |-> <<e(n, m), 1>>])
  IN  [n \in DOMAIN query |-> [m \in DOMAIN key |-> RDiv(<<e(n, m), 1>>, total(n))]]

\* attention: einsum('bhnm,bdhm->bdhn', prob, value)
AttentionOut(p, value) ==
  [n \in DOMAIN p |-> RSum([m \in DOMAIN value |-> RMul(p[n][m], <<value[m], 1>>)])]

\* the prob that MultiHeadedAttention.forward of layer k computes for (x, source)
LayerProb(k, x, source) == AttentionProb(ProjQuery(k, x), ProjKey(k, source))

\* self.merge(x.contiguous().view(...))
Merge(k, x) == [n \in DOMAIN x |-> Wrap((2 * x[n][1]) \div x[n][2] + 1)]

\* AttentionalPropagation.forward: self.mlp(cat([x, message], dim=1))
Mlp(k, x, message) == [n \in DOMAIN x |-> Wrap(x[n] + 2 * message[n] + k)]

\* layer(x, source) given the prob its attention computed
LayerOut(k, x, source, p) ==
  Mlp(k, x, Merge(k, AttentionOut(p, ProjValue(k, source))))

\* desc + delta
Residual(desc, delta) == [n \in DOMAIN desc |-> Wrap(desc[n] + delta[n])]

\* src0, src1 of AttentionalGNN.forward
GnnSources(i, desc0, desc1) ==
  IF names[i] = "cross" THEN <<desc1, desc0>> ELSE <<desc0, desc1>>

\* self.final_proj(desc)
FinalProj(desc) == [n \in DOMAIN desc |-> Wrap(2 * desc[n] + 1)]

\* scores = einsum('bdn,bdm->bnm', mdesc0, mdesc1) / descriptor_dim**.5
Scores(mdesc0, mdesc1) ==
  [n \in DOMAIN mdesc0 |-> [m \in DOMAIN mdesc1 |-> Rat(2 ^ Wrap(mdesc0[n] * mdesc1[m]), 2)]]

-----------------------------------------------------------------------------
(* Arguments of a call *)

\* a set of n keypoints with their descriptors and detection scores
KeypointSet(n, b) ==
  [kpts |-> [i \in 0..(n - 1) |-> <<i, b>>],
   desc |-> [i \in 0..(n - 1) |-> Wrap(2 * i + b)],
   scores |-> [i \in 0..(n - 1) |-> 1 + b]]

KeypointSets == {KeypointSet(n, b) : n \in 0..MaxN, b \in 0..1}

\* image sizes (width, height)
Shapes == {<<1, 2>>, <<2, 2>>}

Args(set0, set1, shape0, shape1) ==
  [kpts0 |-> set0.kpts, kpts1 |-> set1.kpts,
   desc0 |-> set0.desc, desc1 |-> set1.desc,
   scores0 |-> set0.scores, scores1 |-> set1.scores,
   shape0 |-> shape0, shape1 |-> shape1]

Inputs ==
  {Args(a, b, s0, s1) : a \in KeypointSets, b \in KeypointSets,
                        s0 \in Shapes, s1 \in {<<2, 2>>}}

\* the arguments concurrent callers draw from: empty and full sets, and two
\* different sets 0 of the same size
ConcInputs ==
  {Args(KeypointSet(n0, b), KeypointSet(n1, 1), <<2, 2>>, <<2, 2>>) :
     n0 \in {0, MaxN}, b \in 0..1, n1 \in {0, MaxN}}

N0(args) == Len0(args.kpts0)
N1(args) == Len0(args.kpts1)

\* the exact arithmetic of the optimal transport stays within TLC's integers
Fits(m, n, iters) == iters <= 1 \/ (m = 1 /\ n = 1)

-----------------------------------------------------------------------------
(* Frames of SuperGlue.forward *)

Callers == {1, 2}

NoArgs == Args(KeypointSet(0, 0), KeypointSet(0, 0), <<2, 2>>, <<2, 2>>)
NoRet == [indices0 |-> Tensor(<<>>, <<>>), mscores0 |-> Tensor(<<>>, <<>>)]

IdleFrame ==
  [pc |-> "idle", args |-> NoArgs, ran |-> {},
   kpts0 |-> <<>>, kpts1 |-> <<>>, desc0 |-> <<>>, desc1 |-> <<>>,
   i |-> 0, delta0 |-> <<>>,
   scores |-> <<>>, couplings |-> <<>>, u |-> <<>>, v |-> <<>>, it |-> 0,
   max0 |-> <<>>, max1 |-> <<>>, ret |-> NoRet]

\* forward is entered with its arguments, by a caller that is at one of froms
Start(c, inputs, froms) ==
  /\ call[c].pc \in froms
  /\ \E a \in inputs :
       /\ Fits(N0(a), N1(a), sinkhorn_iterations)
       /\ call' = [call EXCEPT ![c] =
            [IdleFrame EXCEPT !.pc = "entry", !.args = a,
               !.kpts0 = a.kpts0, !.kpts1 = a.kpts1,
               !.desc0 = a.desc0, !.desc1 = a.desc1]]
  /\ UNCHANGED <<bin_score, sinkhorn_iterations, prob>>

\* if kpts0.shape[1] == 0 or kpts1.shape[1] == 0
NoKeypoints(kpts0, kpts1) == Len0(kpts0) = 0 \/ Len0(kpts1) = 0

\* a plausible slip: the fill value left at 0
NewFullZero(kpts0) == Tensor(<<1, Len0(kpts0)>>, [n \in DOMAIN kpts0 |-> 0])

\* kpts0.new_full(kshape0, -1, dtype=torch.int) with kshape0 = kpts0.shape[:-1]
NewFull(kpts0) == Tensor(<<1, Len0(kpts0)>>, [n \in DOMAIN kpts0 |-> -1])

\* kpts0.new_zeros(shape0): a zero tensor of the size that shape0 holds
NewZeros(shape0) ==
  Tensor(shape0, [n \in 0..(shape0[1] * shape0[2] - 1) |-> Zero])

\* the no-keypoints return of forward
Bypass(c) ==
  /\ call[c].pc = "entry"
  /\ NoKeypoints(call[c].kpts0, call[c].kpts1)
  /\ call' = [call EXCEPT ![c].pc = "done",
                          ![c].ret = [indices0 |-> NewFull(call[c].kpts0),
                                      mscores0 |-> NewZeros(call[c].args.shape0)]]
  /\ UNCHANGED <<bin_score, sinkhorn_iterations, prob>>

\* keypoint normalization and the keypoint MLP encoder
Encode(c) ==
  LET f == call[c]
      k0 == NormalizeKeypoints(f.kpts0, f.args.shape0)
      k1 == NormalizeKeypoints(f.kpts1, f.args.shape1)
  IN  /\ f.pc = "entry"
      /\ ~NoKeypoints(f.kpts0, f.kpts1)
      /\ call' = [call EXCEPT ![c].pc = "gnn",
                   ![c].kpts0 = k0, ![c].kpts1 = k1,
                   ![c].desc0 = Residual(f.desc0, Kenc(k0, f.args.scores0)),
                   ![c].desc1 = Residual(f.desc1, Kenc(k1, f.args.scores1)),
                   ![c].i = 0,
                   ![c].ran = {"normalize", "kenc"}]
      /\ UNCHANGED <<bin_score, sinkhorn_iterations, prob>>

\* a plausible slip: the buffer is not cleared
KeepProb(buffer) == buffer

\* layer.attn.prob = []
ClearProb(buffer) == <<>>

\* AttentionalGNN.forward, loop head: the layer's buffer is reset
GnnReset(c) ==
  LET f == call[c]
  IN  /\ f.pc = "gnn"
      /\ f.i < NumLayers
      /\ prob' = [prob EXCEPT ![f.i] = ClearProb(prob[f.i])]
      /\ call' = [call EXCEPT ![c].pc = "layer0", ![c].ran = f.ran \cup {"gnn"}]
      /\ UNCHANGED <<bin_score, sinkhorn_iterations>>

\* delta0 = layer(desc0, src0); its attention appends prob
GnnLayer0(c) ==
  LET f == call[c]
      src == GnnSources(f.i, f.desc0, f.desc1)
  IN  /\ f.pc = "layer0"
      /\ \E p \in {LayerProb(f.i, f.desc0, src[1])} :
           /\ prob' = [prob EXCEPT ![f.i] = Append(prob[f.i], p)]
           /\ call' = [call EXCEPT ![c].pc = "layer1",
                                   ![c].delta0 = LayerOut(f.i, f.desc0, src[1], p)]
      /\ UNCHANGED <<bin_score, sinkhorn_iterations>>

\* a plausible slip: desc0 is advanced before delta1 is computed
GnnLayer1Sequential(c) ==
  LET f == call[c]
      d0 == Residual(f.desc0, f.delta0)
      src == GnnSources(f.i, d0, f.desc1)
      p == LayerProb(f.i, f.desc1, src[2])
  IN  /\ f.pc = "layer1"
      /\ prob' = [prob EXCEPT ![f.i] = Append(prob[f.i], p)]
      /\ call' = [call EXCEPT ![c].pc = "gnn",
                   ![c].desc0 = d0,
                   ![c].desc1 = Residual(f.desc1, LayerOut(f.i, f.desc1, src[2], p)),
                   ![c].delta0 = <<>>,
                   ![c].i = f.i + 1]
      /\ UNCHANGED <<bin_score, sinkhorn_iterations>>

\* a plausible slip: delta0 is rebuilt from the prob found first in the layer's buffer
GnnLayer1Buffered(c) ==
  LET f == call[c]
      src == GnnSources(f.i, f.desc0, f.desc1)
      p == LayerProb(f.i, f.desc1, src[2])
      p0 == IF prob[f.i] # <<>> /\ DOMAIN Head(prob[f.i]) = DOMAIN f.desc0
                               /\ DOMAIN Head(prob[f.i])[0] = DOMAIN src[1]
            THEN Head(prob[f.i]) ELSE LayerProb(f.i, f.desc0, src[1])
  IN  /\ f.pc = "layer1"
      /\ prob' = [prob EXCEPT ![f.i] = Append(prob[f.i], p)]
      /\ call' = [call EXCEPT ![c].pc = "gnn",
                   ![c].desc0 = Residual(f.desc0, LayerOut(f.i, f.desc0, src[1], p0)),
                   ![c].desc1 = Residual(f.desc1, LayerOut(f.i, f.desc1, src[2], p)),
                   ![c].delta0 = <<>>,
                   ![c].i = f.i + 1]
      /\ UNCHANGED <<bin_score, sinkhorn_iterations>>

\* delta1 = layer(desc1, src1); desc0, desc1 = desc0 + delta0, desc1 + delta1
GnnLayer1(c) ==
  LET f == call[c]
      src == GnnSources(f.i, f.desc0, f.desc1)
  IN  /\ f.pc = "layer1"
      /\ \E p \in {LayerProb(f.i, f.desc1, src[2])} :
           /\ prob' = [prob EXCEPT ![f.i] = Append(prob[f.i], p)]
           /\ call' = [call EXCEPT ![c].pc = "gnn",
                        ![c].desc0 = Residual(f.desc0, f.delta0),
                        ![c].desc1 = Residual(f.desc1, LayerOut(f.i, f.desc1, src[2], p)),
                        ![c].delta0 = <<>>,
                        ![c].i = f.i + 1]
      /\ UNCHANGED <<bin_score, sinkhorn_iterations>>

\* final projection, descriptor distance, and the set-up of the optimal transport
Project(c) ==
  LET f == call[c]
  IN  /\ f.pc = "gnn"
      /\ f.i = NumLayers
      /\ \E scores \in {Scores(FinalProj(f.desc0), FinalProj(f.desc1))} :
           LET m == Rows(scores)
               n == Cols(scores)
           IN  call' = [call EXCEPT ![c].pc = "sinkhorn",
                        ![c].desc0 = <<>>, ![c].desc1 = <<>>,
                        ![c].kpts0 = <<>>, ![c].kpts1 = <<>>,
                        ![c].scores = scores,
                        ![c].couplings = Couplings(scores, bin_score),
                        ![c].u = ZerosLike(LogMu(m, n)),
                        ![c].v = ZerosLike(LogNu(m, n)),
                        ![c].it = 0,
                        ![c].ran = f.ran \cup {"ot"}]
      /\ UNCHANGED <<bin_score, sinkhorn_iterations, prob>>

\* one pass of the loop of log_sinkhorn_iterations
SinkhornIteration(c) ==
  LET f == call[c]
      m == Rows(f.couplings) - 1
      n == Cols(f.couplings) - 1
  IN  /\ f.pc = "sinkhorn"
      /\ f.it < sinkhorn_iterations
      /\ \E u \in {UpdateU(f.couplings, LogMu(m, n), f.v)} :
           call' = [call EXCEPT ![c].u = u,
                    ![c].v = UpdateV(f.couplings, LogNu(m, n), u),
                    ![c].it = f.it + 1]
      /\ UNCHANGED <<bin_score, sinkhorn_iterations, prob>>

\* log_optimal_transport returns; the matches are extracted and returned
Match(c) ==
  LET f == call[c]
  IN  /\ f.pc = "sinkhorn"
      /\ f.it = sinkhorn_iterations
      /\ \E Z \in {Transported(f.couplings, f.u, f.v)} :
           \E S \in {DropDustbins(Z)} :
             \E indices0 \in Max0Choices(S), indices1 \in Max1Choices(S) :
               call' = [call EXCEPT ![c].pc = "done",
                         ![c].scores = Z,
                         ![c].couplings = <<>>, ![c].u = <<>>, ![c].v = <<>>,
                         ![c].max0 = indices0, ![c].max1 = indices1,
                         ![c].ret = Matches(S, indices0, indices1)]
      /\ UNCHANGED <<bin_score, sinkhorn_iterations, prob>>

-----------------------------------------------------------------------------
(* Specifications *)

BinScores == {<<1, 1>>, <<4, 1>>}

\* the instance after construction: parameters loaded, empty prob buffers
Init ==
  /\ bin_score \in BinScores
  /\ sinkhorn_iterations \in 0..MaxIters
  /\ prob = [k \in 0..(NumLayers - 1) |-> <<>>]
  /\ call = [c \in Callers |-> IdleFrame]

Forward(c, inputs, froms) ==
  \/ Start(c, inputs, froms)
  \/ Bypass(c)
  \/ Encode(c)
  \/ GnnReset(c)
  \/ GnnLayer0(c)
  \/ GnnLayer1(c)
  \/ Project(c)
  \/ SinkhornIteration(c)
  \/ Match(c)

\* calls one after another on one instance
Next == Forward(1, Inputs, {"idle", "done"})

Spec == Init /\ [][Next]_vars

\* two callers on one instance, one call each
NextConc == \E c \in Callers : Forward(c, ConcInputs, {"idle"})

SpecConc == Init /\ [][NextConc]_vars

\* the tail of forward from the descriptor distance on, for every score matrix
ScoreValues == {<<1, 2>>, <<2, 1>>}

ScoreMatrices ==
  UNION {[0..(m - 1) -> [0..(n - 1) -> ScoreValues]] : m \in 1..MaxN, n \in 1..MaxN}

ScoredFrame(scores, alpha) ==
  LET m == Rows(scores)
      n == Cols(scores)
  IN  [IdleFrame EXCEPT !.pc = "sinkhorn",
         !.args = Args(KeypointSet(m, 0), KeypointSet(n, 0), <<2, 2>>, <<2, 2>>),
         !.ran = {"normalize", "kenc", "gnn", "ot"},
         !.i = NumLayers,
         !.scores = scores,
         !.couplings = Couplings(scores, alpha),
         !.u = ZerosLike(LogMu(m, n)),
         !.v = ZerosLike(LogNu(m, n))]

InitMatch ==
  /\ bin_score \in BinScores
  /\ sinkhorn_iterations \in 0..MaxIters
  /\ prob = [k \in 0..(NumLayers - 1) |-> <<>>]
  /\ \E scores \in ScoreMatrices :
       /\ Fits(Rows(scores), Cols(scores), sinkhorn_iterations)
       /\ call = [c \in Callers |->
                    IF c = 1 THEN ScoredFrame(scores, bin_score) ELSE IdleFrame]

NextMatch ==
  \/ SinkhornIteration(1)
  \/ Match(1)

SpecMatch == InitMatch /\ [][NextMatch]_vars

-----------------------------------------------------------------------------
(* Properties *)

Done(c) == call[c].pc = "done"
\* the call returned from the end of forward, not from the no-keypoints branch
Matched(c) == Done(c) /\ "ot" \in call[c].ran
\* S: the final coupling without its dustbin row and column
FinalS(c) == DropDustbins(call[c].scores)

RowSum(Z, i) == RSum(Z[i])
ColSum(Z, j) == RSum(Column(Z, j))

\* row i of S is accepted: its selected column selects it back, above threshold
Accepted(c, i) ==
  LET S == FinalS(c)
      j == call[c].max0[i]
  IN  /\ j \in MaxIndices(Row(S, i))
      /\ call[c].max1[j] = i
      /\ i \in MaxIndices(Column(S, j))
      /\ RLess(match_threshold, S[i][j])

MutualRow(c, i) == call[c].max1[call[c].max0[i]] = i

\* C1: after forward on two non-empty sets, indices0[i] is the column j picked
\* as the maximum of row i of S exactly when column j picks row i back and
\* exp(S[i][j]) > match_threshold, and is -1 in every other case.
C1_MutualThreshold ==
  \A c \in Callers : Matched(c) =>
    /\ DOMAIN call[c].ret.indices0.data = 0..(N0(call[c].args) - 1)
    /\ \A i \in DOMAIN call[c].ret.indices0.data :
         call[c].ret.indices0.data[i] =
           IF Accepted(c, i) THEN call[c].max0[i] ELSE -1

\* a call returned with one row accepted and one row rejected though above threshold
C1_Witness ==
  \E c \in Callers : Matched(c) /\
    \E i, k \in DOMAIN call[c].ret.indices0.data :
      /\ Accepted(c, i)
      /\ ~MutualRow(c, k)
      /\ RLess(match_threshold, FinalS(c)[k][call[c].max0[k]])

\* C2 as stated: every row with index -1 has score 0, and every accepted row
\* keeps the exponentiated score of its cell.
C2_Original ==
  \A c \in Callers : Matched(c) =>
    \A i \in DOMAIN call[c].ret.indices0.data :
      /\ call[c].ret.indices0.data[i] = -1 => call[c].ret.mscores0.data[i] = Zero
      /\ call[c].ret.indices0.data[i] # -1 =>
           call[c].ret.mscores0.data[i] = FinalS(c)[i][call[c].max0[i]]

\* C2 amended: a row whose mutual check failed has index -1 and score 0; a row
\* whose mutual check passed keeps the exponentiated score of its cell, and has
\* index -1 exactly when that score is not above match_threshold.
C2_RejectedScores ==
  \A c \in Callers : Matched(c) =>
    \A i \in DOMAIN call[c].ret.indices0.data :
      LET e == FinalS(c)[i][call[c].max0[i]]
      IN  IF MutualRow(c, i)
          THEN /\ call[c].ret.mscores0.data[i] = e
               /\ call[c].ret.indices0.data[i] = -1 <=> RLeq(e, match_threshold)
          ELSE /\ call[c].ret.mscores0.data[i] = Zero
               /\ call[c].ret.indices0.data[i] = -1

\* a returned row that is mutual, rejected by the threshold, with a non-zero score,
\* next to a row rejected for not being mutual
C2_Witness ==
  \E c \in Callers : Matched(c) /\
    \E i, k \in DOMAIN call[c].ret.indices0.data :
      /\ MutualRow(c, i)
      /\ call[c].ret.indices0.data[i] = -1
      /\ call[c].ret.mscores0.data[i] # Zero
      /\ ~MutualRow(c, k)

\* C10: no column of set 1 is assigned to two different rows of set 0, also when
\* maxima are tied.
C10_OneToOne ==
  \A c \in Callers : Matched(c) =>
    \A i, k \in DOMAIN call[c].ret.indices0.data :
      (i # k /\ call[c].ret.indices0.data[i] # -1 /\ call[c].ret.indices0.data[k] # -1)
        => call[c].ret.indices0.data[i] # call[c].ret.indices0.data[k]

\* two rows above threshold picked the same column, tied in it, and one was accepted
C10_Witness ==
  \E c \in Callers : Matched(c) /\
    \E i, k \in DOMAIN call[c].ret.indices0.data :
      /\ i # k
      /\ call[c].max0[i] = call[c].max0[k]
      /\ FinalS(c)[i][call[c].max0[i]] = FinalS(c)[k][call[c].max0[k]]
      /\ RLess(match_threshold, FinalS(c)[k][call[c].max0[k]])
      /\ call[c].ret.indices0.data[i] # -1

InUnitInterval(x) == RLeq(Zero, x) /\ RLeq(x, One)

\* C6 as stated: for every configured sinkhorn_iterations, every mscores0 entry
\* lies in [0, 1].
C6_Original ==
  \A c \in Callers : Matched(c) =>
    \A i \in DOMAIN call[c].ret.mscores0.data :
      InUnitInterval(call[c].ret.mscores0.data[i])

\* C6 amended: when sinkhorn_iterations >= 1, every mscores0 entry lies in
\* [0, 1], and each non-zero entry is the exponential of a non-dustbin cell of
\* the coupling log_optimal_transport returned.
C6_ScoresInUnitInterval ==
  \A c \in Callers : (Matched(c) /\ sinkhorn_iterations >= 1) =>
    \A i \in DOMAIN call[c].ret.mscores0.data :
      /\ InUnitInterval(call[c].ret.mscores0.data[i])
      /\ call[c].ret.mscores0.data[i] # Zero =>
           \E j \in DOMAIN FinalS(c)[i] : call[c].ret.mscores0.data[i] = FinalS(c)[i][j]

\* a call with at least one iteration returned a score strictly between 0 and 1
C6_Witness ==
  \E c \in Callers : Matched(c) /\ sinkhorn_iterations >= 1 /\
    \E i \in DOMAIN call[c].ret.mscores0.data :
      /\ RLess(Zero, call[c].ret.mscores0.data[i])
      /\ RLess(call[c].ret.mscores0.data[i], One)

\* the distance of the first N0 row sums of a returned coupling from 1
RowGap(Z) ==
  RSum([i \in 0..(Rows(Z) - 2) |-> RDist(RowSum(Z, i), One)])

\* the coupling log_optimal_transport would return from the loop state of frame c
ReturnedNow(c) == Transported(call[c].couplings, call[c].u, call[c].v)

-----------------------------------------------------------------------------
(* forward as a function of its arguments, for comparison with the frames *)

\* layer(x, source)
Layer(k, x, source) == LayerOut(k, x, source, LayerProb(k, x, source))

\* desc0, desc1 after the keypoint encoder
EncodedDesc(args) ==
  <<Residual(args.desc0, Kenc(NormalizeKeypoints(args.kpts0, args.shape0), args.scores0)),
    Residual(args.desc1, Kenc(NormalizeKeypoints(args.kpts1, args.shape1), args.scores1))>>

\* the one element of a singleton set (a value computed once)
Only(S) == CHOOSE x \in S : TRUE

\* one layer of AttentionalGNN.forward applied to d = (desc0, desc1)
GnnStep(k, d) ==
  LET src == GnnSources(k, d[1], d[2])
  IN  <<Residual(d[1], Layer(k, d[1], src[1])),
        Residual(d[2], Layer(k, d[2], src[2]))>>

RECURSIVE GnnAfter(_, _)
\* desc0, desc1 after the first k layers of AttentionalGNN.forward
GnnAfter(k, d) ==
  IF k = 0 THEN d
  ELSE Only({GnnStep(k - 1, p) : p \in {GnnAfter(k - 1, d)}})

\* the two prob matrices layer k computes in a call with these arguments
ExpectedProb(k, args) ==
  Only({LET src == GnnSources(k, d[1], d[2])
        IN  <<LayerProb(k, d[1], src[1]), LayerProb(k, d[2], src[2])>> :
        d \in {GnnAfter(k, EncodedDesc(args))}})

\* one pass of the loop of log_sinkhorn_iterations from uv = (u, v)
SinkhornPass(Z, log_mu, log_nu, uv) ==
  Only({<<u, UpdateV(Z, log_nu, u)>> : u \in {UpdateU(Z, log_mu, uv[2])}})

RECURSIVE SinkhornLoop(_, _, _, _)
\* u, v after iters passes of the loop of log_sinkhorn_iterations
SinkhornLoop(Z, log_mu, log_nu, iters) ==
  IF iters = 0 THEN <<ZerosLike(log_mu), ZerosLike(log_nu)>>
  ELSE Only({SinkhornPass(Z, log_mu, log_nu, uv) :
               uv \in {SinkhornLoop(Z, log_mu, log_nu, iters - 1)}})

\* log_optimal_transport(scores, alpha, iters)
LogOptimalTransport(scores, alpha, iters) ==
  Only({Only({Transported(Z, uv[1], uv[2]) :
                uv \in {SinkhornLoop(Z, LogMu(Rows(Z) - 1, Cols(Z) - 1),
                                     LogNu(Rows(Z) - 1, Cols(Z) - 1), iters)}}) :
          Z \in {Couplings(scores, alpha)}})

\* the coupling log_optimal_transport returns in a call with these arguments
ExpectedCoupling(args) ==
  Only({LogOptimalTransport(scores, bin_score, sinkhorn_iterations) :
          scores \in {Only({Scores(FinalProj(d[1]), FinalProj(d[2])) :
                              d \in {GnnAfter(NumLayers, EncodedDesc(args))}})}})

\* (indices0, mscores0) is what a call with these arguments returns when run alone,
\* max0 and max1 being the maxima torch.max reported
ReturnsAlone(args, max0, max1, ret) ==
  IF N0(args) = 0 \/ N1(args) = 0
  THEN ret = [indices0 |-> Tensor(<<1, N0(args)>>, [n \in 0..(N0(args) - 1) |-> -1]),
              mscores0 |-> NewZeros(args.shape0)]
  ELSE \E S \in {DropDustbins(ExpectedCoupling(args))} :
         /\ DOMAIN max0 = DOMAIN S
         /\ \A i \in DOMAIN max0 : max0[i] \in MaxIndices(Row(S, i))
         /\ DOMAIN max1 = DOMAIN S[0]
         /\ \A j \in DOMAIN max1 : max1[j] \in MaxIndices(Column(S, j))
         /\ ret = Matches(S, max0, max1)

-----------------------------------------------------------------------------

\* C3: when N0 = 0 or N1 = 0, forward returns without running the normalizer,
\* encoder, graph network or optimal transport; indices0 has length N0 with
\* every entry -1, and every entry of mscores0 is 0.
C3_ZeroKeypoints ==
  \A c \in Callers :
    (Done(c) /\ (N0(call[c].args) = 0 \/ N1(call[c].args) = 0)) =>
      /\ call[c].ran = {}
      /\ call[c].ret.indices0.shape = <<1, N0(call[c].args)>>
      /\ DOMAIN call[c].ret.indices0.data = 0..(N0(call[c].args) - 1)
      /\ \A i \in DOMAIN call[c].ret.indices0.data : call[c].ret.indices0.data[i] = -1
      /\ \A i \in DOMAIN call[c].ret.mscores0.data : call[c].ret.mscores0.data[i] = Zero

\* a call with keypoints in set 0 and none in set 1 returned
C3_Witness ==
  \E c \in Callers :
    /\ Done(c)
    /\ N0(call[c].args) = MaxN
    /\ N1(call[c].args) = 0
    /\ call[c].ret.mscores0.data # <<>>

\* C4: on every path the returned mscores0 has one entry per keypoint of set 0:
\* its shape is that of indices0, (1, N0), whatever shape0 and shape1 are.
C4_MscoresLength ==
  \A c \in Callers : Done(c) =>
    /\ call[c].ret.mscores0.shape = call[c].ret.indices0.shape
    /\ DOMAIN call[c].ret.mscores0.data = 0..(N0(call[c].args) - 1)

\* C8: every layer advances both descriptor sets from the values they had
\* before the layer: desc0 + L_k(desc0, s0) and desc1 + L_k(desc1, s1), with
\* (s0, s1) = (desc1, desc0) for 'cross' and (desc0, desc1) for 'self'.
C8_SimultaneousUpdate ==
  [][\A c \in Callers :
       LET f == call[c]
           k == f.i
           s0 == IF names[k] = "cross" THEN f.desc1 ELSE f.desc0
           s1 == IF names[k] = "cross" THEN f.desc0 ELSE f.desc1
       IN  /\ (f.pc = "layer0" /\ call'[c].pc = "layer1") =>
                /\ call'[c].desc0 = f.desc0
                /\ call'[c].desc1 = f.desc1
           /\ (f.pc = "layer1" /\ call'[c].pc = "gnn") =>
                /\ call'[c].desc0 = Residual(f.desc0, Layer(k, f.desc0, s0))
                /\ call'[c].desc1 = Residual(f.desc1, Layer(k, f.desc1, s1))]_vars

\* a cross layer has been applied and changed both descriptor sets
C8_Witness ==
  \E c \in Callers :
    /\ call[c].pc = "gnn"
    /\ call[c].i >= 2
    /\ names[call[c].i - 1] = "cross"
    /\ call[c].desc0 # GnnAfter(call[c].i - 1, EncodedDesc(call[c].args))[1]
    /\ call[c].desc1 # GnnAfter(call[c].i - 1, EncodedDesc(call[c].args))[2]

\* C9: after calls run one after another with non-empty inputs, the buffer of
\* every layer holds exactly the two prob matrices of the most recent call, the
\* one of set 0 followed by the one of set 1.
C9_NoLeak ==
  \A c \in Callers : Matched(c) =>
    \A k \in 0..(NumLayers - 1) : prob[k] = ExpectedProb(k, call[c].args)

\* a call returned whose two sets differ in size, every buffer holding two matrices
C9_Witness ==
  \E c \in Callers :
    /\ Matched(c)
    /\ N0(call[c].args) # N1(call[c].args)
    /\ \A k \in 0..(NumLayers - 1) : Len(prob[k]) = 2 /\ prob[k][1] # prob[k][2]

\* C5: under every interleaving of two calls on one instance, each call returns
\* what it returns when run alone, and the parameters are never modified.
C5_Independent ==
  /\ [][\A c \in Callers : (~Done(c) /\ Done(c)') =>
          ReturnsAlone(call'[c].args, call'[c].max0, call'[c].max1, call'[c].ret)]_vars
  /\ [][bin_score' = bin_score /\ sinkhorn_iterations' = sinkhorn_iterations]_vars

\* both calls returned matches for different arguments, after sharing a layer's buffer
C5_Witness ==
  /\ Matched(1)
  /\ Matched(2)
  /\ call[1].args # call[2].args
  /\ call[1].ret # call[2].ret
  /\ \E k \in 0..(NumLayers - 1) : Len(prob[k]) > 2

====
